---- MODULE Spec2Model ----
(***************************************************************************)
(* Model of the project listing of js/projects.js: the one-time catalog    *)
(* load, the tag/text filter, the pager, the renderer and the event        *)
(* bindings (tag change, debounced search input, Enter key, prev/next).    *)
(* Strings are sequences of one-character strings, so that toLowerCase,    *)
(* trim, includes and template concatenation are computed, not assumed.    *)
(***************************************************************************)
EXTENDS Integers, Sequences, FiniteSets, TLC

VARIABLES
  dataFile,      \* content of data/projects.json on the server (environment)
  has,           \* which optional controls the markup holds (projects.js:22-28)
  loadState,     \* "pending" | "ok" | "failed": position of load()
  fetchCount,    \* number of fetch('data/projects.json') calls issued
  projects,      \* let projects (projects.js:34)
  filtered,      \* let filtered (projects.js:35): references into projects
  currentPage,   \* let currentPage (projects.js:36)
  totalPages,    \* let totalPages (projects.js:37)
  filterValue,   \* filterSelect.value
  searchValue,   \* searchInput.value
  pending,       \* number of timeouts the debounced wrapper set that have not fired
  tLive,         \* debounce closure: TRUE when its handle t names a pending timeout
  burst,         \* input events since a timeout last fired, counted up to MaxBurst
  grid,          \* what projectsGrid shows: "initial" | "cards" | "empty" | "unable"
  cards,         \* the cards in projectsGrid, as references into projects
  cardImg,       \* per card, its img: "placeholder" | "lazy" (data-src only) | "loaded"
  renderThrew,   \* whether the last render() call raised a TypeError
  pagHidden,     \* pagination.hidden
  prevDisabled,  \* prevBtn.disabled
  nextDisabled,  \* nextBtn.disabled
  pageInfo,      \* pageInfo.textContent as <<page, total>>, <<0, 0>> initially
  ariaLabel,     \* projectsGrid aria-label as <<count, shown>>, <<-1, -1>> when unset
  lastEvent,     \* the handler that ran last (for load's catch: what failed)
  hasIO,         \* 'IntersectionObserver' in window (main.js:102)
  observed,      \* the img elements imgObserver observes (main.js:114)
  staticImg,     \* the markup's own img[data-src]: "lazy" | "loaded"
  dataEndpoint,  \* form.getAttribute('data-endpoint'): NoAttr when not set
  actionAttr,    \* the form's action attribute: NoAttr when not set
  fields,        \* the values of the contact form's inputs (form.js:18-24)
  requests,      \* the POST requests sent and not yet answered
  btnDisabled,   \* submitBtn.disabled
  status,        \* statusEl: <<type, message>>
  errDisplay,    \* per field, its .error-msg element: [shown, text]
  formEvent      \* the contact form's handler that ran last, with its response

\* the state of projects.js and of the controls it drives
listVars == <<dataFile, has, loadState, fetchCount, projects, filtered,
              currentPage, totalPages, filterValue, searchValue, pending, tLive,
              burst, grid, cards, cardImg, renderThrew, pagHidden, prevDisabled,
              nextDisabled, pageInfo, ariaLabel, lastEvent>>

\* the state of the lazy loader of main.js
lazyVars == <<hasIO, observed, staticImg>>

\* the state of form.js and of the contact form
formVars == <<dataEndpoint, actionAttr, fields, requests, btnDisabled, status,
              errDisplay, formEvent>>

vars == <<listVars, lazyVars, formVars>>

-----------------------------------------------------------------------------
(* Bounds and program constants *)

MaxRecords == 14

MaxBurst == 2

MaxInFlight == 2

PER_PAGE == 6

-----------------------------------------------------------------------------
(* Strings *)

UpperChars == <<"A","B","C","D","E","F","G","H","I","J","K","L","M",
                "N","O","P","Q","R","S","T","U","V","W","X","Y","Z">>
LowerChars == <<"a","b","c","d","e","f","g","h","i","j","k","l","m",
                "n","o","p","q","r","s","t","u","v","w","x","y","z">>
DigitChars == <<"0","1","2","3","4","5","6","7","8","9">>

\* String.prototype.toLowerCase on one character
LowerChar(c) ==
  IF \E i \in 1..26 : UpperChars[i] = c
  THEN LowerChars[CHOOSE i \in 1..26 : UpperChars[i] = c]
  ELSE c

\* String.prototype.toLowerCase
ToLower(s) == [i \in 1..Len(s) |-> LowerChar(s[i])]

IsSpace(c) == c = " "

\* String.prototype.trim
RECURSIVE TrimLeft(_)
TrimLeft(s) ==
  IF s # <<>> /\ IsSpace(Head(s)) THEN TrimLeft(Tail(s)) ELSE s

RECURSIVE TrimRight(_)
TrimRight(s) ==
  IF s # <<>> /\ IsSpace(s[Len(s)]) THEN TrimRight(SubSeq(s, 1, Len(s) - 1)) ELSE s

Trim(s) == TrimRight(TrimLeft(s))

\* String.prototype.includes
StrIncludes(hay, needle) ==
  \E i \in 1..(Len(hay) - Len(needle) + 1) :
    SubSeq(hay, i, i + Len(needle) - 1) = needle

\* Array.prototype.includes on an array of strings
ArrIncludes(arr, x) == \E i \in 1..Len(arr) : arr[i] = x

\* Array.prototype.join(',') (what Array.prototype.toString does)
RECURSIVE JoinComma(_)
JoinComma(arr) ==
  IF arr = <<>> THEN <<>>
  ELSE IF Len(arr) = 1 THEN arr[1]
  ELSE arr[1] \o <<",">> \o JoinComma(Tail(arr))

\* decimal digits of a natural number, as template interpolation writes it
RECURSIVE Digits(_)
Digits(n) ==
  IF n < 10 THEN <<DigitChars[n + 1]>>
  ELSE Digits(n \div 10) \o <<DigitChars[(n % 10) + 1]>>

-----------------------------------------------------------------------------
(* JSON values of a record's optional fields:                              *)
(* k = "absent" (no such key), "null", "str" (v a string), "arr" (v an     *)
(* array of strings).                                                      *)

Absent == [k |-> "absent", v |-> <<>>]
Null   == [k |-> "null", v |-> <<>>]
StrV(s) == [k |-> "str", v |-> s]
ArrV(a) == [k |-> "arr", v |-> a]

\* JavaScript truthiness of such a value
Truthy(x) == x.k = "arr" \/ (x.k = "str" /\ x.v # <<>>)

\* (x || '').toString()
OrEmptyToString(x) ==
  IF ~Truthy(x) THEN <<>>
  ELSE IF x.k = "arr" THEN JoinComma(x.v)
  ELSE x.v

-----------------------------------------------------------------------------
(* The data source: the documents data/projects.json may hold *)

IdVariants == {"clean", "null", "empty", "dup"}

\* the filter-relevant fields of the k-th source object
SourceFields(k) ==
  CASE k % 4 = 1 ->
         [title |-> <<"A","b">>, description |-> Absent,
          image |-> StrV(<<"a",".","p","n","g">>),
          tech |-> ArrV(<< <<"J","S">>, <<"u","i">> >>),
          tags |-> ArrV(<< <<"w","e","b">> >>)]
    [] k % 4 = 2 ->
         [title |-> <<"c","d">>, description |-> StrV(<<"j","s">>),
          image |-> StrV(<<>>),
          tech |-> StrV(<<"j","s">>),
          tags |-> StrV(<<"w","e","b">>)]
    [] k % 4 = 3 ->
         [title |-> <<"E","f">>, description |-> StrV(<<>>),
          image |-> Absent,
          tech |-> Absent, tags |-> Absent]
    [] OTHER ->
         [title |-> <<"g","h">>, description |-> StrV(<<"x">>),
          image |-> StrV(<<"g",".","p","n","g">>),
          tech |-> ArrV(<< <<"u","i">> >>),
          tags |-> ArrV(<< <<"j","s">>, <<"W","e","b">> >>)]

\* the id key of the k-th source object
SourceId(k, variant) ==
  IF k = 1 /\ variant = "null" THEN Null
  ELSE IF k = 1 /\ variant = "empty" THEN StrV(<<>>)
  ELSE IF k = 1 /\ variant = "dup" THEN StrV(<<"p","2">>)
  ELSE IF k % 3 = 0 THEN StrV(<<"x">> \o Digits(k))
  ELSE Absent

SourceObject(k, variant) ==
  [id |-> SourceId(k, variant),
   title |-> SourceFields(k).title,
   description |-> SourceFields(k).description,
   image |-> SourceFields(k).image,
   tech |-> SourceFields(k).tech,
   tags |-> SourceFields(k).tags]

SourceArray(n, variant) == [k \in 1..n |-> SourceObject(k, variant)]

Sizes == {0, 1, 7, MaxRecords}

Datasets ==
  {SourceArray(n, "clean") : n \in Sizes}
    \cup {SourceArray(2, variant) : variant \in IdVariants}

\* the values the tag select offers, and the texts typed into the search field
All == <<"a","l","l">>
TagValues == {All, <<"j","s">>, <<"J","S">>, <<"w","e","b">>}
SearchTexts == {<<>>, <<" ","J","S"," ">>, <<"z","z">>, <<"e","f">>}

\* how a load can fail
FailureKinds == {"network", "status500", "notArray"}

Controls == {"filter", "search", "pagination", "prev", "next", "pageInfo"}
AllPresent == [c \in Controls |-> TRUE]

-----------------------------------------------------------------------------
(* load(): normalisation of the fetched array (projects.js:179)            *)

\* { id: p.id || `p${i+1}`, ...p }: the spread comes last, so an id key the
\* source object holds (null and '' included) overrides the synthesized one
NormalizeId(p, i) ==
  IF p.id.k = "absent" THEN StrV(<<"p">> \o Digits(i)) ELSE p.id

NormalizeRecord(p, i) ==
  [id |-> NormalizeId(p, i), title |-> p.title, description |-> p.description,
   image |-> p.image, tech |-> p.tech, tags |-> p.tags]

\* data.map((p, i) => ...), i zero-based in the code and `p${i+1}` one-based
NormalizeAll(data) == [k \in 1..Len(data) |-> NormalizeRecord(data[k], k)]

\* projects.slice(): a new array of references to every record, in order
SliceAll(n) == [k \in 1..n |-> k]

-----------------------------------------------------------------------------
(* applyFilters(): the predicate of projects.filter (projects.js:145-156)  *)

\* const tech = filterSelect ? filterSelect.value : 'all'
TechOf(fv) == IF has.filter THEN fv ELSE All

\* the query taken without case folding
QueryOfNoFold(sv) == IF has.search THEN Trim(sv) ELSE <<>>

\* const query = searchInput ? searchInput.value.trim().toLowerCase() : ''
QueryOf(sv) == IF has.search THEN ToLower(Trim(sv)) ELSE <<>>

\* Array.isArray(p.tags) ? p.tags.includes(tech) : (p.tags === tech)
TagsMatch(p, tech) ==
  IF p.tags.k = "arr" THEN ArrIncludes(p.tags.v, tech)
  ELSE p.tags.k = "str" /\ p.tags.v = tech

\* Array.isArray(p.tech) && p.tech.map(t => t.toLowerCase()).includes(tech)
TechMatch(p, tech) ==
  /\ p.tech.k = "arr"
  /\ ArrIncludes([i \in 1..Len(p.tech.v) |-> ToLower(p.tech.v[i])], tech)

OkTech(p, tech) == tech = All \/ TagsMatch(p, tech) \/ TechMatch(p, tech)

\* `${p.title} ${p.description || ''} ${(p.tech||'').toString()} ${(p.tags||'').toString()}`.toLowerCase()
Hay(p) ==
  ToLower(p.title \o <<" ">> \o OrEmptyToString(p.description) \o <<" ">>
            \o OrEmptyToString(p.tech) \o <<" ">> \o OrEmptyToString(p.tags))

\* the callback of projects.filter
Keep(p, tech, query) ==
  IF ~OkTech(p, tech) THEN FALSE
  ELSE IF query = <<>> THEN TRUE
  ELSE StrIncludes(Hay(p), query)

\* Array.prototype.filter: the kept elements, in the array's order
RECURSIVE FilterFrom(_, _, _, _)
FilterFrom(ps, k, tech, query) ==
  IF k > Len(ps) THEN <<>>
  ELSE (IF Keep(ps[k], tech, query) THEN <<k>> ELSE <<>>)
         \o FilterFrom(ps, k + 1, tech, query)

\* the kept elements collected in reverse
RECURSIVE FilterFromReversed(_, _, _, _)
FilterFromReversed(ps, k, tech, query) ==
  IF k > Len(ps) THEN <<>>
  ELSE FilterFromReversed(ps, k + 1, tech, query)
         \o (IF Keep(ps[k], tech, query) THEN <<k>> ELSE <<>>)

FilterRefsReversed(ps, tech, query) == FilterFromReversed(ps, 1, tech, query)

FilterRefs(ps, tech, query) == FilterFrom(ps, 1, tech, query)

\* the page left where it was
PageAfterFilterKept(cp) == cp

\* currentPage = 1 (projects.js:158)
PageAfterFilter(cp) == 1

-----------------------------------------------------------------------------
(* render() (projects.js:109-141)                                          *)

Min(a, b) == IF a < b THEN a ELSE b
Max(a, b) == IF a > b THEN a ELSE b

\* Math.ceil(n / PER_PAGE) for n >= 0
CeilDiv(n, d) == (n + d - 1) \div d

\* Math.max(1, Math.ceil(filtered.length / PER_PAGE))
TotalPagesOf(n) == Max(1, CeilDiv(n, PER_PAGE))

\* Math.min(currentPage, totalPages)
ClampPage(cp, tp) == Min(cp, tp)

\* the slice taken with start = currentPage * PER_PAGE
PageItemsOneBased(f, page) ==
  LET start == page * PER_PAGE
  IN SubSeq(f, start + 1, Min(start + PER_PAGE, Len(f)))

\* filtered.slice(start, start + PER_PAGE) with start = (currentPage - 1) * PER_PAGE
PageItems(f, page) ==
  LET start == (page - 1) * PER_PAGE
  IN SubSeq(f, start + 1, Min(start + PER_PAGE, Len(f)))

\* The state render() leaves when run on filtered = f and currentPage = cp.
\* threw: prevBtn.disabled / nextBtn.disabled raised a TypeError on a missing
\* button, after the cards and pagination.hidden were already written.
RenderResult(f, cp) ==
  IF Len(f) = 0
  THEN [currentPage |-> cp, totalPages |-> totalPages,
        grid |-> "empty", cards |-> <<>>,
        pagHidden |-> IF has.pagination THEN TRUE ELSE pagHidden,
        prevDisabled |-> prevDisabled, nextDisabled |-> nextDisabled,
        pageInfo |-> pageInfo, ariaLabel |-> ariaLabel, threw |-> FALSE]
  ELSE
    LET tp == TotalPagesOf(Len(f))
        page == ClampPage(cp, tp)
        items == PageItems(f, page)
        setPrev == has.pagination /\ has.prev
        setNext == setPrev /\ has.next
        setInfo == setNext /\ has.pageInfo
        throws == has.pagination /\ ~setNext
    IN [currentPage |-> page, totalPages |-> tp,
        grid |-> "cards", cards |-> items,
        pagHidden |-> IF has.pagination THEN tp <= 1 ELSE pagHidden,
        prevDisabled |-> IF setPrev THEN page = 1 ELSE prevDisabled,
        nextDisabled |-> IF setNext THEN page = tp ELSE nextDisabled,
        pageInfo |-> IF setInfo THEN <<page, tp>> ELSE pageInfo,
        ariaLabel |-> IF throws THEN ariaLabel ELSE <<Len(f), Len(items)>>,
        threw |-> throws]

\* buildCard(p), the img element (projects.js:54-62): data-src when the record
\* has an image, the placeholder as src otherwise
BuildCardImg(p) == IF Truthy(p.image) THEN "lazy" ELSE "placeholder"

\* the assignments of a render to the module state and the DOM; ps is the
\* catalog the cards are built from
Commit(ps, r) ==
  /\ currentPage' = r.currentPage
  /\ totalPages' = r.totalPages
  /\ grid' = r.grid
  /\ cards' = r.cards
  /\ cardImg' = [i \in 1..Len(r.cards) |-> BuildCardImg(ps[r.cards[i]])]
  /\ renderThrew' = r.threw
  /\ pagHidden' = r.pagHidden
  /\ prevDisabled' = r.prevDisabled
  /\ nextDisabled' = r.nextDisabled
  /\ pageInfo' = r.pageInfo
  /\ ariaLabel' = r.ariaLabel

\* the catch block of load(): the notice replaces the grid, pagination is hidden
ShowUnable ==
  /\ grid' = "unable"
  /\ cards' = <<>>
  /\ cardImg' = <<>>
  /\ pagHidden' = IF has.pagination THEN TRUE ELSE pagHidden

-----------------------------------------------------------------------------
(* State after DOMContentLoaded: the listeners are bound and load() has    *)
(* issued its fetch (projects.js:22-37, 189-228)                           *)

InitWith(flags, docs) ==
  /\ dataFile \in docs
  /\ has \in flags
  /\ loadState = "pending"
  /\ fetchCount = 1
  /\ projects = <<>>
  /\ filtered = <<>>
  /\ currentPage = 1
  /\ totalPages = 1
  /\ filterValue = All
  /\ searchValue = <<>>
  /\ pending = 0
  /\ tLive = FALSE
  /\ burst = 0
  /\ grid = "initial"
  /\ cards = <<>>
  /\ cardImg = <<>>
  /\ renderThrew = FALSE
  /\ pagHidden = FALSE
  /\ prevDisabled = FALSE
  /\ nextDisabled = FALSE
  /\ pageInfo = <<0, 0>>
  /\ ariaLabel = <<-1, -1>>
  /\ lastEvent = "init"

\* main.js:101-122 at DOMContentLoaded: the img[data-src] elements in the
\* document at that moment, which are the markup's own, since no card exists
\* before the fetch resolves; they are observed, or loaded at once when the
\* browser has no IntersectionObserver
LazyImgsAtStart == {"static"}

LazyInit(ios) ==
  /\ hasIO \in ios
  /\ observed = IF hasIO THEN LazyImgsAtStart ELSE {}
  /\ staticImg = IF hasIO THEN "lazy" ELSE "loaded"

-----------------------------------------------------------------------------
(* The contact form (form.js)                                              *)

\* getAttribute() of an attribute the element does not carry
NoAttr == "null"

\* the URL of the document that holds the form
PageUrl == "/contact.html"

DataEndpointValues == {NoAttr, "/hook"}

ActionAttrValues == {NoAttr, "#", "/send"}

\* form.action, the property getEndpoint reads: the action attribute resolved
\* against the document, and the document's own URL when the attribute is
\* missing
FormActionOf(attr) ==
  IF attr = NoAttr THEN PageUrl
  ELSE IF attr = "#" THEN "/contact.html#"
  ELSE attr

\* a string that is neither null nor empty
NonEmptyAttr(s) == s # NoAttr /\ s # ""

\* getEndpoint() as the expression parses: (a || (b && c)) ? b : d
GetEndpoint(de, action) ==
  IF NonEmptyAttr(de) \/ (NonEmptyAttr(action) /\ action # "#")
  THEN action
  ELSE "/api/contact"

\* the inputs the handlers validate and show errors for
Fields == {"name", "email", "subject", "message"}

FormValue(n, e, s, m, h) ==
  [name |-> n, email |-> e, subject |-> s, message |-> m, hp |-> h]

\* the form after form.reset()
EmptyForm == FormValue(<<>>, <<>>, <<>>, <<>>, <<>>)

GoodName == <<"A", "l">>
GoodEmail == <<"a", "@", "b", ".", "c">>
GoodSubject == <<"H", "i">>
GoodMessage == <<"0", "1", "2", "3", "4", "5", "6", "7", "8", "9">>
\* ten characters, nine once trimmed
ShortMessage == <<"1", "2", "3", "4", "5", "6", "7", "8", "9", " ">>

\* what a user or a bot may have typed when a handler runs
FormContents ==
  { EmptyForm,
    FormValue(GoodName, GoodEmail, GoodSubject, GoodMessage, <<>>),
    FormValue(<<" ">> \o GoodName, <<" ">> \o GoodEmail \o <<" ">>,
              GoodSubject \o <<" ">>, <<" ">> \o GoodMessage, <<>>),
    FormValue(<<" ">>, GoodEmail, GoodSubject, GoodMessage, <<>>),
    FormValue(GoodName, <<"a", "@", "b">>, GoodSubject, GoodMessage, <<>>),
    FormValue(GoodName, <<"a", " ", "b", "@", "c", ".", "d">>, GoodSubject,
              GoodMessage, <<>>),
    FormValue(GoodName, GoodEmail, <<>>, GoodMessage, <<>>),
    FormValue(GoodName, GoodEmail, GoodSubject, ShortMessage, <<>>),
    FormValue(<<>>, GoodEmail, GoodSubject, ShortMessage, <<>>),
    FormValue(GoodName, GoodEmail, GoodSubject, GoodMessage, <<"x">>),
    FormValue(<<>>, <<"a", "@", "b">>, GoodSubject, <<>>, <<"x">>) }

\* isEmail(v): /^[^\s@]+@[^\s@]+\.[^\s@]+$/
IsEmail(v) ==
  \E a \in 1..Len(v) : \E d \in 1..Len(v) :
    /\ v[a] = "@"
    /\ v[d] = "."
    /\ 1 < a
    /\ a + 1 < d
    /\ d < Len(v)
    /\ \A i \in 1..Len(v) : i # a => (~IsSpace(v[i]) /\ v[i] # "@")

\* the length test of validate() on the message as typed, not trimmed
MessageOkUntrimmed(m) == m # <<>> /\ Len(m) >= 10

\* validate(), line 61: the trimmed message is non-empty and at least 10 long
MessageOk(m) == Trim(m) # <<>> /\ Len(Trim(m)) >= 10

\* validate(): the keys of errors
Validate(f) ==
  {k \in Fields :
     \/ k = "name" /\ Trim(f.name) = <<>>
     \/ k = "email" /\ (Trim(f.email) = <<>> \/ ~IsEmail(Trim(f.email)))
     \/ k = "subject" /\ Trim(f.subject) = <<>>
     \/ k = "message" /\ ~MessageOk(f.message)}

\* a submit handler without the honeypot check
IsBotNever(f) == FALSE

\* the honeypot check of the submit handler
IsBot(f) == f.hp # <<>>

\* clearErrors(): every .error-msg is emptied and hidden
ClearErrors == [k \in Fields |-> [shown |-> FALSE, text |-> ""]]

\* showErrors(errors) on the display d: every .error-msg is hidden, then the
\* one of each listed field gets its message and is shown
ShowErrors(d, errs, msg) ==
  [k \in Fields |->
     IF k \in errs THEN [shown |-> TRUE, text |-> msg]
     ELSE [shown |-> FALSE, text |-> d[k].text]]

\* buildPayload()
BuildPayload(f) ==
  [name |-> Trim(f.name), email |-> Trim(f.email),
   subject |-> Trim(f.subject), message |-> Trim(f.message)]

\* what the endpoint may answer; body is the parsed JSON when the response
\* carries JSON
NoBody == [message |-> FALSE, error |-> FALSE, hasErrors |-> FALSE, errors |-> {}]

Response(kind, json, body) == [kind |-> kind, json |-> json, body |-> body]

NoResponse == Response("none", FALSE, NoBody)

Responses ==
  { Response("ok", FALSE, NoBody),
    Response("ok", TRUE, NoBody),
    Response("ok", TRUE, [NoBody EXCEPT !.message = TRUE]),
    Response("fail", FALSE, NoBody),
    Response("fail", TRUE, [NoBody EXCEPT !.error = TRUE]),
    Response("fail", TRUE, [NoBody EXCEPT !.message = TRUE]),
    Response("fail", TRUE,
             [NoBody EXCEPT !.hasErrors = TRUE, !.errors = {"email"}]),
    Response("fail", TRUE,
             [NoBody EXCEPT !.error = TRUE, !.hasErrors = TRUE,
                            !.errors = {"name", "message"}]),
    Response("network", FALSE, NoBody) }

\* await resp.json(): rejects when the body is not JSON and when the body
\* stream has been read before
ReadJson(r, bodyUsed) ==
  IF bodyUsed \/ ~r.json
  THEN [threw |-> TRUE, body |-> NoBody]
  ELSE [threw |-> FALSE, body |-> r.body]

\* the contact form as the document is parsed
FormInit(des, attrs) ==
  /\ dataEndpoint \in des
  /\ actionAttr \in attrs
  /\ fields = EmptyForm
  /\ requests = <<>>
  /\ btnDisabled = FALSE
  /\ status = <<"none", "">>
  /\ errDisplay = ClearErrors
  /\ formEvent = [ev |-> "init", resp |-> NoResponse]

\* a page without a contact form: form.js returns at line 13
NoForm == FormInit({NoAttr}, {NoAttr})

Init == InitWith({AllPresent}, Datasets) /\ LazyInit({TRUE}) /\ NoForm

-----------------------------------------------------------------------------
(* load() (projects.js:172-187)                                            *)

\* the fetch resolves with an ok response whose body is an array
LoadSuccess ==
  /\ loadState = "pending"
  /\ loadState' = "ok"
  /\ projects' = NormalizeAll(dataFile)
  /\ filtered' = SliceAll(Len(dataFile))
  /\ LET r == RenderResult(filtered', currentPage)
     IN IF r.threw
        THEN /\ ShowUnable
             /\ currentPage' = r.currentPage
             /\ totalPages' = r.totalPages
             /\ prevDisabled' = r.prevDisabled
             /\ nextDisabled' = r.nextDisabled
             /\ pageInfo' = r.pageInfo
             /\ ariaLabel' = r.ariaLabel
             /\ renderThrew' = TRUE
        ELSE Commit(projects', r)
  /\ lastEvent' = "loadOk"
  /\ UNCHANGED <<lazyVars, formVars>>
  /\ UNCHANGED <<dataFile, has, fetchCount, filterValue, searchValue, pending,
                 tLive, burst>>

\* the fetch rejects, or the status is not ok, or the body is not an array
LoadFailure(kind) ==
  /\ loadState = "pending"
  /\ loadState' = "failed"
  /\ ShowUnable
  /\ lastEvent' = kind
  /\ UNCHANGED <<lazyVars, formVars>>
  /\ UNCHANGED <<dataFile, has, fetchCount, projects, filtered, currentPage,
                 totalPages, filterValue, searchValue, pending, tLive, burst,
                 renderThrew, prevDisabled, nextDisabled, pageInfo, ariaLabel>>

-----------------------------------------------------------------------------
(* applyFilters() (projects.js:144-160) on the controls' values fv and sv  *)

\* the filter written back into the catalog (projects = projects.filter(...))
ApplyFiltersInPlace(fv, sv) ==
  LET kept == FilterRefs(projects, TechOf(fv), QueryOf(sv))
  IN /\ projects' = [i \in 1..Len(kept) |-> projects[kept[i]]]
     /\ filtered' = SliceAll(Len(kept))
     /\ Commit(projects', RenderResult(filtered', PageAfterFilter(currentPage)))
     /\ UNCHANGED <<dataFile, has, loadState, fetchCount>>

ApplyFilters(fv, sv) ==
  /\ filtered' = FilterRefs(projects, TechOf(fv), QueryOf(sv))
  /\ Commit(projects, RenderResult(filtered', PageAfterFilter(currentPage)))
  /\ UNCHANGED <<dataFile, has, loadState, fetchCount, projects>>

-----------------------------------------------------------------------------
(* Event bindings (projects.js:189-225)                                    *)

\* the user picks another option of the tag select: 'change' listener
TagChange(v) ==
  /\ has.filter
  /\ v # filterValue
  /\ filterValue' = v
  /\ ApplyFilters(v, searchValue)
  /\ lastEvent' = "tag"
  /\ UNCHANGED <<lazyVars, formVars>>
  /\ UNCHANGED <<searchValue, pending, tLive, burst>>

\* the wrapper with clearTimeout(t) left out
AfterNoClear(n, live) == n

\* clearTimeout(t) (projects.js:166): the timeout t names, if it has not
\* fired yet, is cancelled
AfterClear(n, live) == IF live THEN n - 1 ELSE n

\* the user edits the search field: 'input' listener, the debounced wrapper
\* clears the timeout t names and sets a new one, which t then names
SearchInput(v) ==
  /\ has.search
  /\ v # searchValue
  /\ searchValue' = v
  /\ pending' = AfterClear(pending, tLive) + 1
  /\ tLive' = TRUE
  /\ burst' = Min(burst + 1, MaxBurst)
  /\ lastEvent' = "input"
  /\ UNCHANGED <<lazyVars, formVars>>
  /\ UNCHANGED <<dataFile, has, loadState, fetchCount, projects, filtered,
                 currentPage, totalPages, filterValue, grid, cards, cardImg,
                 renderThrew, pagHidden, prevDisabled, nextDisabled, pageInfo,
                 ariaLabel>>

\* a timeout of the debounce fires (the oldest pending one: they share one
\* delay); the one t names is the newest
TimerFire ==
  /\ pending > 0
  /\ pending' = pending - 1
  /\ tLive' = (tLive /\ pending > 1)
  /\ burst' = 0
  /\ ApplyFilters(filterValue, searchValue)
  /\ lastEvent' = "timer"
  /\ UNCHANGED <<lazyVars, formVars>>
  /\ UNCHANGED <<filterValue, searchValue>>

\* 'keyup' listener with e.key === 'Enter'
EnterKey ==
  /\ has.search
  /\ ApplyFilters(filterValue, searchValue)
  /\ lastEvent' = "enter"
  /\ UNCHANGED <<lazyVars, formVars>>
  /\ UNCHANGED <<filterValue, searchValue, pending, tLive, burst>>

\* 'click' listener of prevBtn
PrevClick ==
  /\ has.prev
  /\ IF currentPage > 1
     THEN Commit(projects, RenderResult(filtered, currentPage - 1))
     ELSE UNCHANGED <<currentPage, totalPages, grid, cards, cardImg, renderThrew,
                      pagHidden, prevDisabled, nextDisabled, pageInfo, ariaLabel>>
  /\ lastEvent' = "prev"
  /\ UNCHANGED <<lazyVars, formVars>>
  /\ UNCHANGED <<dataFile, has, loadState, fetchCount, projects, filtered,
                 filterValue, searchValue, pending, tLive, burst>>

\* 'click' listener of nextBtn
NextClick ==
  /\ has.next
  /\ IF currentPage < totalPages
     THEN Commit(projects, RenderResult(filtered, currentPage + 1))
     ELSE UNCHANGED <<currentPage, totalPages, grid, cards, cardImg, renderThrew,
                      pagHidden, prevDisabled, nextDisabled, pageInfo, ariaLabel>>
  /\ lastEvent' = "next"
  /\ UNCHANGED <<lazyVars, formVars>>
  /\ UNCHANGED <<dataFile, has, loadState, fetchCount, projects, filtered,
                 filterValue, searchValue, pending, tLive, burst>>

Next ==
  \/ LoadSuccess
  \/ \E kind \in FailureKinds : LoadFailure(kind)
  \/ \E v \in TagValues : TagChange(v)
  \/ \E v \in SearchTexts : SearchInput(v)
  \/ TimerFire
  \/ EnterKey
  \/ PrevClick
  \/ NextClick

Spec == Init /\ [][Next]_vars

-----------------------------------------------------------------------------
(* The lazy loader of main.js (main.js:100-122) on the projects page       *)

\* the callback of imgObserver for an observed img that intersects the
\* viewport: src is set from data-src and the img is unobserved
ObserverCallback(e) ==
  /\ e \in observed
  /\ staticImg' = "loaded"
  /\ observed' = observed \ {e}
  /\ UNCHANGED <<hasIO, listVars, formVars>>

NextLazy ==
  \/ Next
  \/ \E e \in LazyImgsAtStart : ObserverCallback(e)

LazyDatasets == {SourceArray(1, "clean"), SourceArray(7, "clean")}

InitLazy ==
  InitWith({AllPresent}, LazyDatasets) /\ LazyInit(BOOLEAN) /\ NoForm

\* the browser delivers the intersection of an observed img that is in view
SpecLazy ==
  InitLazy /\ [][NextLazy]_vars
    /\ WF_vars(\E e \in LazyImgsAtStart : ObserverCallback(e))

\* the same program on a page that holds any subset of the optional controls
OptionalDatasets == {SourceArray(0, "clean"), SourceArray(7, "clean")}

InitOptional ==
  InitWith([Controls -> BOOLEAN], OptionalDatasets) /\ LazyInit({TRUE})
    /\ NoForm

SpecOptional == InitOptional /\ [][Next]_vars

-----------------------------------------------------------------------------
(* The handlers of form.js (form.js:116-202) on the contact page           *)

FormEventOf(ev, r) == [ev |-> ev, resp |-> r]

\* the user, or a bot, changes what the inputs hold; form.js listens to no
\* input event
EditForm(f) ==
  /\ f # fields
  /\ fields' = f
  /\ formEvent' = FormEventOf("edit", NoResponse)
  /\ UNCHANGED <<dataEndpoint, actionAttr, requests, btnDisabled, status,
                 errDisplay>>
  /\ UNCHANGED <<listVars, lazyVars>>

\* the blur listener of an input (form.js:194-201)
Blur ==
  /\ errDisplay' = IF Validate(fields) # {}
                   THEN ShowErrors(errDisplay, Validate(fields), "client")
                   ELSE ClearErrors
  /\ formEvent' = FormEventOf("blur", NoResponse)
  /\ UNCHANGED <<dataEndpoint, actionAttr, fields, requests, btnDisabled,
                 status>>
  /\ UNCHANGED <<listVars, lazyVars>>

\* the submit listener up to its await (form.js:116-154)
Submit ==
  /\ IsBot(fields) \/ Validate(fields) # {} \/ Len(requests) < MaxInFlight
  /\ IF IsBot(fields)
     THEN /\ errDisplay' = ClearErrors
          /\ status' = <<"success", "sent">>
          /\ fields' = EmptyForm
          /\ UNCHANGED <<requests, btnDisabled>>
     ELSE IF Validate(fields) # {}
     THEN /\ errDisplay' = ShowErrors(ClearErrors, Validate(fields), "client")
          /\ status' = <<"error", "fix">>
          /\ UNCHANGED <<fields, requests, btnDisabled>>
     ELSE /\ errDisplay' = ClearErrors
          /\ btnDisabled' = TRUE
          /\ status' = <<"info", "sending">>
          /\ requests' =
               Append(requests,
                      [method |-> "POST",
                       endpoint |-> GetEndpoint(dataEndpoint,
                                                FormActionOf(actionAttr)),
                       payload |-> BuildPayload(fields)])
          /\ UNCHANGED fields
  /\ formEvent' = FormEventOf("submit", NoResponse)
  /\ UNCHANGED <<dataEndpoint, actionAttr>>
  /\ UNCHANGED <<listVars, lazyVars>>

\* errText of the non-ok branch (form.js:166-171)
ErrTextOf(b) ==
  IF ~b.threw /\ b.body.error THEN "unable:error"
  ELSE IF ~b.threw /\ b.body.message THEN "unable:message"
  ELSE "unable:status"

RemoveAt(s, i) == SubSeq(s, 1, i - 1) \o SubSeq(s, i + 1, Len(s))

\* the rest of the submit listener once the fetch of request i settles with
\* r (form.js:156-187)
Respond(i, r) ==
  /\ i \in 1..Len(requests)
  /\ requests' = RemoveAt(requests, i)
  /\ IF r.kind = "ok"
     THEN LET b == ReadJson(r, FALSE)
          IN /\ status' = <<"success", IF ~b.threw /\ b.body.message
                                       THEN "server" ELSE "sent">>
             /\ fields' = EmptyForm
             /\ UNCHANGED errDisplay
     ELSE IF r.kind = "fail"
     THEN LET first == ReadJson(r, FALSE)
              second == ReadJson(r, TRUE)
          IN /\ status' = <<"error", ErrTextOf(first)>>
             /\ errDisplay' = IF ~second.threw /\ second.body.hasErrors
                              THEN ShowErrors(errDisplay, second.body.errors,
                                              "server")
                              ELSE errDisplay
             /\ UNCHANGED fields
     ELSE /\ status' = <<"error", "network">>
          /\ UNCHANGED <<fields, errDisplay>>
  /\ btnDisabled' = FALSE
  /\ formEvent' = FormEventOf("response", r)
  /\ UNCHANGED <<dataEndpoint, actionAttr>>
  /\ UNCHANGED <<listVars, lazyVars>>

NextForm ==
  \/ \E f \in FormContents : EditForm(f)
  \/ Blur
  \/ Submit
  \/ \E i \in 1..MaxInFlight : \E r \in Responses : Respond(i, r)

\* the contact page holds no projects grid: projects.js returns at line 30
InitForm ==
  /\ InitWith({AllPresent}, {SourceArray(0, "clean")})
  /\ LazyInit({TRUE})
  /\ FormInit(DataEndpointValues, ActionAttrValues)

SpecForm == InitForm /\ [][NextForm]_vars

-----------------------------------------------------------------------------
(* Vocabulary of the properties                                            *)

FilterEvents == {"tag", "timer", "enter"}

\* the number of pages n records need, at least 1
PagesFor(n) ==
  IF n = 0 THEN 1
  ELSE CHOOSE t \in 1..n : t * PER_PAGE >= n /\ (t - 1) * PER_PAGE < n

\* the positions of the half-open interval [(page-1)*6, page*6) that exist in f
SliceOf(f, page) ==
  LET lo == (page - 1) * PER_PAGE
      cnt == Cardinality({i \in 1..Len(f) : lo < i /\ i <= page * PER_PAGE})
  IN [i \in 1..cnt |-> f[lo + i]]

InFiltered(i) == \E j \in 1..Len(filtered) : filtered[j] = i

-----------------------------------------------------------------------------
\* C1: after every event totalPages = max(1, ceil(|filtered| / 6)) and
\* 1 <= currentPage <= totalPages, for every size of the filtered subset,
\* 0 included.
C1_PagesMatchFiltered ==
  /\ totalPages = PagesFor(Len(filtered))
  /\ 1 <= currentPage
  /\ currentPage <= totalPages

\* C2: once the load has failed, the unable-to-load notice stays in the
\* display area and pagination stays hidden whatever events follow, and the
\* fetch is not retried.
C2_FailureIsTerminal ==
  loadState = "failed" =>
    /\ grid = "unable"
    /\ pagHidden
    /\ fetchCount = 1

\* C3: every recomputation of the filter (tag change, debounce timeout, Enter)
\* leaves the current page at 1 and the first page of the new subset displayed.
C3_FilterResetsPage ==
  lastEvent \in FilterEvents =>
    /\ currentPage = 1
    /\ currentPage <= PagesFor(Len(filtered))
    /\ cards = SliceOf(filtered, 1)

\* a recomputation whose result spans several pages and drops some records
C3_Witness ==
  /\ lastEvent \in FilterEvents
  /\ currentPage = 1
  /\ Len(filtered) > PER_PAGE
  /\ Len(filtered) < Len(projects)

\* the tag predicate as the claim states it
ClaimTagPredicate(p, sel) ==
  \/ sel = All
  \/ (p.tags.k = "arr" /\ \E i \in 1..Len(p.tags.v) : p.tags.v[i] = sel)
  \/ (p.tags.k = "str" /\ p.tags.v = sel)
  \/ (p.tech.k = "arr"
        /\ \E i \in 1..Len(p.tech.v) : ToLower(p.tech.v[i]) = ToLower(sel))
  \/ (p.tech.k = "str" /\ ToLower(p.tech.v) = ToLower(sel))

\* C4: a record passes the tag filter iff the selected value is 'all', or its
\* tags (array or string) contain the value case-sensitively, or its tech (array
\* or string) contains the value case-insensitively. Read off a recomputation
\* with an empty query, where the tag predicate alone decides.
C4_TagPredicate ==
  (lastEvent \in FilterEvents /\ ToLower(Trim(searchValue)) = <<>>) =>
    \A i \in 1..Len(projects) :
      InFiltered(i) <=> ClaimTagPredicate(projects[i], filterValue)

\* the text the query is looked up in: title, description, tech and tags in
\* this order, separated by single spaces, an array written comma-separated
ClaimText(p) ==
  p.title \o <<" ">>
    \o (IF p.description.k = "str" THEN p.description.v ELSE <<>>) \o <<" ">>
    \o (IF p.tech.k = "arr" THEN JoinComma(p.tech.v)
        ELSE IF p.tech.k = "str" THEN p.tech.v ELSE <<>>) \o <<" ">>
    \o (IF p.tags.k = "arr" THEN JoinComma(p.tags.v)
        ELSE IF p.tags.k = "str" THEN p.tags.v ELSE <<>>)

ClaimTextPredicate(p, text) ==
  LET q == ToLower(Trim(text))
      h == ToLower(ClaimText(p))
  IN \/ q = <<>>
     \/ \E i \in 1..Len(h) :
          /\ i + Len(q) - 1 <= Len(h)
          /\ \A j \in 1..Len(q) : h[i + j - 1] = q[j]

\* C5: after a recomputation a record is in the filtered subset iff it passes
\* the tag predicate and the text predicate (true for an empty trimmed query,
\* otherwise a case-folded substring match on title, description, tech and
\* tags); when no record matches, the empty-state placeholder is shown.
C5_FilteredIffTagAndText ==
  lastEvent \in FilterEvents =>
    /\ \A i \in 1..Len(projects) :
         InFiltered(i) <=>
           (OkTech(projects[i], filterValue)
              /\ ClaimTextPredicate(projects[i], searchValue))
    /\ (filtered = <<>> => grid = "empty" /\ cards = <<>>)

\* a recomputation with a tag and a mixed-case, padded query that keeps some
\* records and drops others
C5_Witness ==
  /\ lastEvent \in FilterEvents
  /\ filterValue # All
  /\ Trim(searchValue) # <<>>
  /\ ToLower(Trim(searchValue)) # searchValue
  /\ Len(filtered) >= 2
  /\ Len(filtered) < Len(projects)

\* C6: the filtered subset is a subsequence of the catalog: only catalog
\* records, each at most once, in the catalog's relative order.
C6_FilteredIsSubsequence ==
  /\ \A i \in 1..Len(filtered) : filtered[i] \in 1..Len(projects)
  /\ \A i, j \in 1..Len(filtered) : i < j => filtered[i] < filtered[j]

\* a filtered subset that skips catalog records between the ones it keeps
C6_Witness ==
  /\ lastEvent \in FilterEvents
  /\ Len(filtered) >= 3
  /\ \E i \in 1..(Len(filtered) - 1) : filtered[i + 1] > filtered[i] + 1

\* C7: whenever the filtered subset is non-empty, the cards displayed are the
\* slice [(page-1)*6, page*6) of it in order, prev is disabled iff page = 1 and
\* next is disabled iff page = totalPages.
C7_PageSliceDisplayed ==
  Len(filtered) > 0 =>
    /\ grid = "cards"
    /\ cards = SliceOf(filtered, currentPage)
    /\ prevDisabled <=> (currentPage = 1)
    /\ nextDisabled <=> (currentPage = totalPages)

\* 14 unfiltered records, next clicked to page 3 of 3: records 13 and 14
C7_Witness ==
  /\ lastEvent = "next"
  /\ Len(filtered) = 14
  /\ currentPage = 3
  /\ totalPages = 3
  /\ pageInfo = <<3, 3>>
  /\ cards = <<13, 14>>
  /\ nextDisabled
  /\ ~prevDisabled

\* C8: a prev click on page 1 and a next click on the last page
\* (max(1, ceil(|filtered| / 6)), 1 for an empty result) change neither the
\* current page nor the display.
C8_NoOpAtBounds ==
  [][/\ (lastEvent' = "prev" /\ currentPage = 1) =>
          (currentPage' = currentPage /\ grid' = grid /\ cards' = cards)
     /\ (lastEvent' = "next" /\ currentPage = PagesFor(Len(filtered))) =>
          (currentPage' = currentPage /\ grid' = grid /\ cards' = cards)]_vars

\* C9: after a successful load every record has an id (a non-empty string),
\* ids are pairwise distinct, and a record whose source object has no id key
\* at 1-based position k has id "p" + k.
C9_IdsPresentAndDistinct ==
  loadState = "ok" =>
    /\ \A i \in 1..Len(projects) :
         /\ projects[i].id.k = "str"
         /\ projects[i].id.v # <<>>
         /\ dataFile[i].id.k = "absent" =>
              projects[i].id.v = <<"p">> \o Digits(i)
    /\ \A i, j \in 1..Len(projects) :
         i # j => projects[i].id # projects[j].id

\* C10: the data source is fetched exactly once; the catalog is empty until a
\* successful load, is assigned only by that load, and no later event changes
\* its contents or order.
C10_CatalogWrittenOnce ==
  /\ [](fetchCount = 1 /\ (loadState # "ok" => projects = <<>>))
  /\ [][loadState = "ok" => projects' = projects]_vars
  /\ [][projects' # projects => (loadState = "pending" /\ lastEvent' = "loadOk")]_vars

\* a loaded catalog that a filter has narrowed and a page click has followed
C10_Witness ==
  /\ loadState = "ok"
  /\ Len(projects) = MaxRecords
  /\ projects = NormalizeAll(dataFile)
  /\ Len(filtered) > PER_PAGE
  /\ Len(filtered) < Len(projects)
  /\ lastEvent = "next"

\* C11: with any subset of the optional controls present, no render raises
\* an error, and a successful load ends with the catalog's first page (or the
\* empty-state placeholder of an empty catalog) displayed, not the
\* unable-to-load notice.
C11_OptionalControlsSupported ==
  /\ ~renderThrew
  /\ lastEvent = "loadOk" =>
       /\ grid \in {"cards", "empty"}
       /\ cards = SliceOf(filtered, 1)

\* C12: at most one deferred filter invocation is pending; every search input
\* event leaves exactly one pending (the one it scheduled, whatever the length
\* of the burst), and once it has fired none is left.
C12_OneDeferredInvocation ==
  /\ pending <= 1
  /\ tLive <=> (pending = 1)
  /\ lastEvent = "input" => (pending = 1 /\ burst >= 1)
  /\ burst >= 1 => pending = 1
  /\ lastEvent = "timer" => (pending = 0 /\ burst = 0)

\* a burst of at least two input events with no timeout fired in between
C12_Witness ==
  /\ lastEvent = "input"
  /\ burst >= 2
  /\ pending = 1
  /\ loadState = "ok"

\* C13: after every render the accessible summary reports the current
\* filtered count and the number of records shown on the page.
C13_SummaryCurrent ==
  grid \in {"cards", "empty"} => ariaLabel = <<Len(filtered), Len(cards)>>

\* C19: whenever the catalog is loaded and no debounced invocation is pending,
\* the filtered subset is the filter applied to the catalog, the tag control's
\* value and the search field's text.
C19_FilteredMatchesControls ==
  (loadState = "ok" /\ pending = 0) =>
    filtered = FilterRefs(projects, TechOf(filterValue), QueryOf(searchValue))

\* C20: after an Enter-triggered re-filter no deferred filter invocation
\* scheduled by earlier keystrokes remains pending.
C20_EnterSupersedesDebounce ==
  lastEvent = "enter" => pending = 0

CardLazy(i) == i <= Len(cardImg) /\ cardImg[i] = "lazy"

\* C17: every card rendered for a record with an image eventually has its img
\* src set from data-src by the lazy loader (or the card is replaced by a
\* later render).
C17_CardImagesLoad ==
  \A i \in 1..PER_PAGE : CardLazy(i) ~> ~CardLazy(i)

-----------------------------------------------------------------------------
(* Properties of the contact form                                          *)

\* the fields the words of the validation rule reject: an empty trimmed name
\* or subject, a trimmed email that does not match the pattern, a trimmed
\* message shorter than 10 characters
ClaimInvalid(f) ==
  {k \in Fields :
     \/ k = "name" /\ Len(Trim(f.name)) = 0
     \/ k = "subject" /\ Len(Trim(f.subject)) = 0
     \/ k = "email" /\ ~IsEmail(Trim(f.email))
     \/ k = "message" /\ Len(Trim(f.message)) < 10}

\* the endpoint by the stated priority: data-endpoint when set, else the
\* action when set and not '#', else '/api/contact'
ClaimEndpoint(de, attr) ==
  IF de # NoAttr THEN de
  ELSE IF attr # NoAttr /\ attr # "#" THEN FormActionOf(attr)
  ELSE "/api/contact"

FailureTexts == {"unable:error", "unable:message", "unable:status"}

\* C14: when the endpoint answers non-2xx with a JSON body that contains
\* errors: {field: message}, the general failure status is shown and each
\* listed field's message is displayed inline next to that field.
C14_ServerFieldErrorsShown ==
  (/\ formEvent.ev = "response"
   /\ formEvent.resp.kind = "fail"
   /\ formEvent.resp.json
   /\ formEvent.resp.body.hasErrors) =>
    /\ status[1] = "error"
    /\ status[2] \in FailureTexts
    /\ \A k \in formEvent.resp.body.errors :
         errDisplay[k].shown /\ errDisplay[k].text = "server"

\* C15: a submit with a non-empty honeypot shows the success status and
\* resets the form, sends no request and leaves the submit button as it was,
\* whatever the other fields hold.
C15_HoneypotFakeSuccess ==
  [][(formEvent'.ev = "submit" /\ fields.hp # <<>>) =>
       /\ status' = <<"success", "sent">>
       /\ fields' = EmptyForm
       /\ requests' = requests
       /\ btnDisabled' = btnDisabled]_vars

C15_Witness ==
  /\ formEvent.ev = "submit"
  /\ status = <<"success", "sent">>
  /\ fields = EmptyForm
  /\ requests = <<>>
  /\ ~btnDisabled

\* C16: every request goes to the data-endpoint attribute when it is set,
\* otherwise to form.action when it is set and not '#', otherwise to
\* '/api/contact', for every combination of the two attributes.
C16_EndpointPriority ==
  \A i \in 1..Len(requests) :
    requests[i].endpoint = ClaimEndpoint(dataEndpoint, actionAttr)

\* C18: a submit sends a POST request only if the honeypot is empty and
\* validation passes; on a validation failure no request is sent, the submit
\* button is left as it was, and the error status and one inline error per
\* invalid field, and no other, are shown.
C18_PostOnlyWhenValid ==
  [][formEvent'.ev = "submit" =>
       /\ requests' # requests =>
            /\ fields.hp = <<>>
            /\ ClaimInvalid(fields) = {}
            /\ Len(requests') = Len(requests) + 1
            /\ SubSeq(requests', 1, Len(requests)) = requests
            /\ requests'[Len(requests')].method = "POST"
            /\ requests'[Len(requests')].payload =
                 [name |-> Trim(fields.name), email |-> Trim(fields.email),
                  subject |-> Trim(fields.subject),
                  message |-> Trim(fields.message)]
       /\ (fields.hp = <<>> /\ ClaimInvalid(fields) # {}) =>
            /\ requests' = requests
            /\ btnDisabled' = btnDisabled
            /\ status' = <<"error", "fix">>
            /\ \A k \in Fields :
                 /\ errDisplay'[k].shown <=> k \in ClaimInvalid(fields)
                 /\ errDisplay'[k].shown => errDisplay'[k].text = "client"]_vars

C18_Witness ==
  /\ formEvent.ev = "submit"
  /\ status = <<"error", "fix">>
  /\ fields.hp = <<>>
  /\ ClaimInvalid(fields) = {"name", "message"}
  /\ errDisplay["name"].shown
  /\ errDisplay["message"].shown
  /\ ~errDisplay["email"].shown
  /\ ~errDisplay["subject"].shown
  /\ btnDisabled
  /\ Len(requests) = 1

\* C21: for any sequence of submit events and response arrivals, the submit
\* button is disabled in exactly the states in which at least one request is
\* outstanding: it is never enabled while a request is in flight and it is
\* enabled again once every request has been answered.
C21_DisabledIffOutstanding ==
  btnDisabled <=> Len(requests) >= 1

====
